---- MODULE Spec2Model ----
(***************************************************************************)
(* Control-flow structuring (src/analysis/cfs.rs): CFS::new clones the     *)
(* CFG, removes the surplus exit edges of its loops (denaturation), copies *)
(* the result into a graph of structure blocks and reduces that graph to a *)
(* fixed point with five pattern reducers.                                 *)
(*                                                                         *)
(* A basic block is its identifier (BasicBlock.first in the tests), a CFG  *)
(* is [root, edges] with edges[n] the two-slot array <<next, cond>>, a     *)
(* structure block is a record [type, id, content, depth], Basic blocks    *)
(* having empty content and depth 0.  Equality of blocks is structural.    *)
(*                                                                         *)
(* The iteration order of a HashMap or HashSet is not fixed by the code:   *)
(* every place where the result depends on it is a choice of the action.   *)
(***************************************************************************)
EXTENDS Integers, Sequences, FiniteSets, TLC

\* Largest number of basic blocks of the enumerated input CFGs.
MaxNodes == 3
\* Largest number of driver iterations followed (the loop has no counter).
MaxIter == 12

VARIABLES
    pc,         \* position inside CFS::new: "new", "copy", "driver", "done", "panic"
    cfg,        \* the CFG passed to CFS::new
    cfs_cfg,    \* CFS.cfg once CFS::new has returned
    nonat_cfg,  \* build_cfs: the CFG after remove_natural_loops
    calls,      \* the calls of remove_edges that remove_natural_loops made, in order
    graph,      \* build_cfs: the structure graph being reduced (CFS.tree at the end)
    reduced,    \* build_cfs: the match of the last driver iteration that set modified
    before,     \* graph.len() when that iteration began
    iter,       \* number of driver iterations that set modified
    build,      \* 1 for CFS::new(cfg), 2 for CFS::new(first.get_cfg())
    first_tree  \* get_tree() of the first build, kept by the caller

vars == <<pc, cfg, cfs_cfg, nonat_cfg, calls, graph, reduced, before, iter, build, first_tree>>

\* Option::None in a successor slot or a root.
None == -1

Range(s) == {s[i] : i \in DOMAIN s}

Last(s) == s[Len(s)]

Max2(a, b) == IF a > b THEN a ELSE b

RECURSIVE PermSeqs(_)
\* Every order in which a hash set can be iterated.
PermSeqs(S) ==
    IF S = {} THEN {<<>>}
    ELSE UNION {{<<x>> \o p : p \in PermSeqs(S \ {x})} : x \in S}

RECURSIVE SortedSeq(_)
\* The elements of a set of integers in increasing order.
SortedSeq(S) ==
    IF S = {} THEN <<>>
    ELSE LET m == CHOOSE x \in S : \A y \in S : x <= y
         IN <<m>> \o SortedSeq(S \ {m})

(***************************************************************************)
(* The CFG and the graph container (analysis/cfg.rs, analysis/graph.rs).   *)
(***************************************************************************)

EmptyCFG == [root |-> None, edges |-> <<>>]

\* create_cfg!: node i gets the listed successors, padded with None.
Pad(s) == IF Len(s) = 0 THEN <<None, None>>
          ELSE IF Len(s) = 1 THEN <<s[1], None>>
          ELSE <<s[1], s[2]>>

MkCFG(succs) ==
    [root |-> IF Len(succs) = 0 THEN None ELSE 0,
     edges |-> [i \in 0 .. Len(succs) - 1 |-> Pad(succs[i + 1])]]

\* CFG::next and CFG::cond: slot 0 and slot 1 of the edge array.
CfgNext(c, n) == c.edges[n][1]

CfgCond(c, n) == c.edges[n][2]

\* CFG::children: the occupied slots, in slot order.
CfgChildren(c) ==
    [n \in DOMAIN c.edges |-> SelectSeq(c.edges[n], LAMBDA x : x # None)]

\* Graph::children of a node that may be missing from the adjacency.
ChildrenOf(ch, n) == IF n \in DOMAIN ch THEN ch[n] ELSE <<>>

RECURSIVE ReachFrom(_, _, _)
ReachFrom(ch, frontier, seen) ==
    IF frontier = {} THEN seen
    ELSE LET nxt == UNION {Range(ChildrenOf(ch, n)) : n \in frontier} \ seen
         IN ReachFrom(ch, nxt, seen \cup nxt)

\* Graph::preorder, as the set of visited nodes.
Preorder(ch, root) == ReachFrom(ch, {root}, {root})

RECURSIVE PostVisit(_, _, _)
RECURSIVE PostKids(_, _, _, _)
PostKids(ch, kids, i, st) ==
    IF i > Len(kids) THEN st
    ELSE IF kids[i] \in st.seen \/ kids[i] \notin DOMAIN ch
         THEN PostKids(ch, kids, i + 1, st)
         ELSE PostKids(ch, kids, i + 1, PostVisit(ch, kids[i], st))

PostVisit(ch, n, st) ==
    LET after == PostKids(ch, ch[n], 1, [st EXCEPT !.seen = @ \cup {n}])
    IN [after EXCEPT !.out = Append(@, n)]

\* Graph::postorder: depth-first from the root, children in list order.
Postorder(ch, root) ==
    IF root \notin DOMAIN ch THEN <<>>
    ELSE PostVisit(ch, root, [out |-> <<>>, seen |-> {}]).out

\* Graph::predecessors: the inverse of the adjacency.
Predecessors(ch) ==
    [n \in DOMAIN ch \cup UNION {Range(ch[m]) : m \in DOMAIN ch} |->
        {m \in DOMAIN ch : n \in Range(ch[m])}]

\* Graph::scc: a node's component, identified by the set of its nodes.
Scc(ch) ==
    LET reach == [n \in DOMAIN ch |-> ReachFrom(ch, {n}, {n})]
    IN [n \in DOMAIN ch |->
           {m \in DOMAIN ch : m \in reach[n] /\ n \in reach[m]}]

(***************************************************************************)
(* Loop analysis and denaturation.                                         *)
(***************************************************************************)

is_loop(sccs) ==
    [n \in DOMAIN sccs |->
        Cardinality({m \in DOMAIN sccs : sccs[m] = sccs[n]}) > 1]

RECURSIVE DepthFold(_, _, _, _)
DepthFold(ch, po, i, depth_map) ==
    IF i > Len(po) THEN depth_map
    ELSE LET node == po[i]
             known == {k \in DOMAIN ch[node] : ch[node][k] \in DOMAIN depth_map}
             depth == IF known = {} THEN 0
                      ELSE CHOOSE d \in {depth_map[ch[node][k]] + 1 : k \in known} :
                               \A k \in known : depth_map[ch[node][k]] + 1 <= d
         IN DepthFold(ch, po, i + 1, (node :> depth) @@ depth_map)

calculate_depth(c) ==
    DepthFold(CfgChildren(c), Postorder(CfgChildren(c), c.root), 1, <<>>)

RECURSIVE ExitsChildren(_, _, _, _, _)
ExitsChildren(node, kids, i, sccs, st) ==
    IF i > Len(kids) THEN st
    ELSE LET child == kids[i]
             st1 == IF sccs[child] # sccs[node]
                    THEN [st EXCEPT !.exits = Append(@, node),
                                    !.targets = @ \cup {child}]
                    ELSE IF child \notin st.visited
                         THEN [st EXCEPT !.visit = Append(@, child)]
                         ELSE st
         IN ExitsChildren(node, kids, i + 1, sccs,
                          [st1 EXCEPT !.visited = @ \cup {child}])

RECURSIVE ExitsLoop(_, _, _)
ExitsLoop(sccs, c, st) ==
    IF st.visit = <<>> THEN st
    ELSE LET node == Last(st.visit)
             popped == [st EXCEPT !.visit = SubSeq(@, 1, Len(@) - 1)]
         IN ExitsLoop(sccs, c,
                ExitsChildren(node, CfgChildren(c)[node], 1, sccs, popped))

exits_and_targets(node, sccs, c) ==
    LET st == ExitsLoop(sccs, c, [visit |-> <<node>>, visited |-> {node},
                                  exits |-> <<>>, targets |-> {}])
    IN [exits |-> st.exits, targets |-> st.targets]

\* One iteration of the visit of remove_edges.
RemoveStep(node, targets, sccs, c, st) ==
    LET cond == CfgCond(c, node)
        next == CfgNext(c, node)
        follow(to) ==
            [st EXCEPT !.visit = IF to \notin st.visited /\ sccs[to] = sccs[node]
                                 THEN Append(@, to) ELSE @,
                       !.visited = @ \cup {to}]
    IN IF cond # None
       THEN IF cond \in targets
            THEN [st EXCEPT !.changes = Append(@, <<node, <<c.edges[node][1], None>>>>)]
            ELSE follow(cond)
       ELSE IF next # None
            THEN IF next \in targets
                 THEN [st EXCEPT !.changes =
                                    Append(@, <<node, <<c.edges[node][2], None>>>>)]
                 ELSE follow(next)
            ELSE st

RECURSIVE RemoveLoop(_, _, _, _)
RemoveLoop(targets, sccs, c, st) ==
    IF st.visit = <<>> THEN st
    ELSE LET node == Last(st.visit)
             popped == [st EXCEPT !.visit = SubSeq(@, 1, Len(@) - 1)]
         IN RemoveLoop(targets, sccs, c, RemoveStep(node, targets, sccs, c, popped))

RECURSIVE ApplyChanges(_, _, _)
ApplyChanges(edges, changes, i) ==
    IF i > Len(changes) THEN edges
    ELSE ApplyChanges([edges EXCEPT ![changes[i][1]] = changes[i][2]], changes, i + 1)

remove_edges(node, targets, sccs, c) ==
    LET st == RemoveLoop(targets, sccs, c,
                  [visit |-> <<node>>, visited |-> {node}, changes |-> <<>>])
    IN [c EXCEPT !.edges = ApplyChanges(@, st.changes, 1)]

\* A reduce whose closure always keeps the accumulator: the first target in
\* iteration order survives whatever its depth.
ReduceTargets_first(order, i, acc, depth_map) == acc

RECURSIVE ReduceTargets(_, _, _, _)
\* targets.iter().reduce(..): the accumulator stays only when strictly deeper.
ReduceTargets(order, i, acc, depth_map) ==
    IF i > Len(order) THEN acc
    ELSE ReduceTargets(order, i + 1,
             IF depth_map[acc] > depth_map[order[i]] THEN acc ELSE order[i],
             depth_map)

RECURSIVE InsertByPreds(_, _, _)
InsertByPreds(sorted, x, preds) ==
    IF sorted = <<>> THEN <<x>>
    ELSE IF Cardinality(preds[Last(sorted)]) <= Cardinality(preds[x])
         THEN Append(sorted, x)
         ELSE Append(InsertByPreds(SubSeq(sorted, 1, Len(sorted) - 1), x, preds),
                     Last(sorted))

RECURSIVE SortByPreds(_, _, _)
\* exits.sort_by(..): a stable sort on the number of predecessors.
SortByPreds(exits, i, preds) ==
    IF i = 0 THEN <<>>
    ELSE InsertByPreds(SortByPreds(exits, i - 1, preds), exits[i], preds)

\* The targets that step 3 of denaturate_loop removes; order is the order in
\* which the set of targets is iterated.
SurplusTargets(targets, order, depth_map) ==
    targets \ {ReduceTargets(order, 2, order[1], depth_map)}

denaturate_loop(node, sccs, preds, depth_map, c, order) ==
    LET found == exits_and_targets(node, sccs, c)
    IN IF Len(found.exits) > 1 /\ is_loop(sccs)[node]
       THEN LET c1 == IF Cardinality(found.targets) >= 2
                      THEN remove_edges(node,
                               SurplusTargets(found.targets, order, depth_map),
                               sccs, c)
                      ELSE c
                again == exits_and_targets(node, sccs, c1)
                exits == SortByPreds(again.exits, Len(again.exits), preds)
            IN IF Cardinality(again.targets) = 1
               THEN remove_edges(node, {Last(exits)}, sccs, c1)
               ELSE c1
       ELSE c

RECURSIVE NaturalLoopsFold(_, _, _, _, _, _, _, _)
NaturalLoopsFold(nodes, i, loops_done, sccs, preds, depth_map, c, orders) ==
    IF i > Len(nodes) THEN c
    ELSE LET node == nodes[i]
             scc_id == sccs[node]
         IN IF scc_id \notin loops_done
            THEN NaturalLoopsFold(nodes, i + 1, loops_done \cup {scc_id}, sccs, preds,
                     depth_map,
                     denaturate_loop(node, sccs, preds, depth_map, c, orders[scc_id]),
                     orders)
            ELSE NaturalLoopsFold(nodes, i + 1, loops_done, sccs, preds, depth_map,
                                  c, orders)

\* nodes is cfg.edges.keys() in the order the map yields them, orders[s] the
\* order in which the targets of component s are iterated.
remove_natural_loops(sccs, preds, c, nodes, orders) ==
    NaturalLoopsFold(nodes, 1, {}, sccs, preds, calculate_depth(c), c, orders)

\* The nodes that the visit of remove_edges pops: the start node and every
\* node it pushes, which are the nodes of the start's component it has seen.
Processed(node, targets, sccs, c) ==
    LET st == RemoveLoop(targets, sccs, c,
                  [visit |-> <<node>>, visited |-> {node}, changes |-> <<>>])
    IN {n \in st.visited : sccs[n] = sccs[node]}

\* One call of remove_edges by denaturate_loop: step 3 removes the surplus
\* targets, step 4 the last of the sorted exits. exits and found are the result
\* of the exits_and_targets that precedes the call (exits sorted in step 4).
RemoveEdgesCall(step, node, targets, exits, found, sccs, c) ==
    [step |-> step, node |-> node, targets |-> targets, exits |-> exits,
     found |-> found, processed |-> Processed(node, targets, sccs, c),
     before |-> c, after |-> remove_edges(node, targets, sccs, c)]

\* The calls of remove_edges that denaturate_loop makes.
DenaturateCalls(node, sccs, preds, depth_map, c, order) ==
    LET found == exits_and_targets(node, sccs, c)
    IN IF Len(found.exits) > 1 /\ is_loop(sccs)[node]
       THEN LET first == IF Cardinality(found.targets) >= 2
                         THEN <<RemoveEdgesCall(3, node,
                                    SurplusTargets(found.targets, order, depth_map),
                                    found.exits, found.targets, sccs, c)>>
                         ELSE <<>>
                c1 == IF first = <<>> THEN c ELSE first[1].after
                again == exits_and_targets(node, sccs, c1)
                exits == SortByPreds(again.exits, Len(again.exits), preds)
            IN IF Cardinality(again.targets) = 1
               THEN Append(first, RemoveEdgesCall(4, node, {Last(exits)}, exits,
                                                  again.targets, sccs, c1))
               ELSE first
       ELSE <<>>

RECURSIVE NaturalLoopsCalls(_, _, _, _, _, _, _, _)
\* The calls of remove_edges that the loop of remove_natural_loops makes.
NaturalLoopsCalls(nodes, i, loops_done, sccs, preds, depth_map, c, orders) ==
    IF i > Len(nodes) THEN <<>>
    ELSE LET node == nodes[i]
             scc_id == sccs[node]
         IN IF scc_id \notin loops_done
            THEN DenaturateCalls(node, sccs, preds, depth_map, c, orders[scc_id])
                 \o NaturalLoopsCalls(nodes, i + 1, loops_done \cup {scc_id}, sccs,
                        preds, depth_map,
                        denaturate_loop(node, sccs, preds, depth_map, c, orders[scc_id]),
                        orders)
            ELSE NaturalLoopsCalls(nodes, i + 1, loops_done, sccs, preds, depth_map,
                                   c, orders)

\* The targets of a component: where the edges that leave it land.
TargetsOf(c, comp) ==
    {t \in UNION {Range(CfgChildren(c)[n]) : n \in comp} : t \notin comp}

RECURSIVE OrdersOver(_, _)
\* One iteration order of its target set for every component.
OrdersOver(c, comps) ==
    IF comps = {} THEN {<<>>}
    ELSE LET s == CHOOSE x \in comps : TRUE
         IN {(s :> p) @@ f : p \in PermSeqs(TargetsOf(c, s)),
                             f \in OrdersOver(c, comps \ {s})}

RECURSIVE KeysOver(_)
\* The key orders that differ in the first key of some component: only the
\* first key of a component is passed to denaturate_loop.
KeysOver(comps) ==
    IF comps = {} THEN {<<>>}
    ELSE LET s == CHOOSE x \in comps : \A y \in comps :
                      (CHOOSE a \in x : \A b \in x : a <= b)
                          <= (CHOOSE a \in y : \A b \in y : a <= b)
         IN {<<rep>> \o SortedSeq(s \ {rep}) \o rest :
                 rep \in s, rest \in KeysOver(comps \ {s})}

(***************************************************************************)
(* Structure blocks (analysis/blocks.rs) and the structure graph.          *)
(***************************************************************************)

\* Option::None where a StructureBlock is expected.
NoBlock == [type |-> "NoBlock", id |-> None, content |-> <<>>, depth |-> 0]

\* StructureBlock::from(Rc<BasicBlock>).
Basic(n) == [type |-> "Basic", id |-> n, content |-> <<>>, depth |-> 0]

\* StructureBlock::from(Rc::new(NestedBlock { block_type, content, depth })).
Nested(block_type, content, depth) ==
    [type |-> block_type, id |-> None, content |-> content, depth |-> depth]

\* StructureBlock::get_depth.
get_depth(b) == b.depth

\* DirectedGraph::default().
EmptyGraph == [root |-> NoBlock, adjacency |-> <<>>]

\* Graph::len of a DirectedGraph: the number of adjacency entries.
GraphLen(g) == Cardinality(DOMAIN g.adjacency)

\* graph.children(n) is Some: n is a key of the adjacency.
HasNode(g, n) == n \in DOMAIN g.adjacency

Reverse(s) == [i \in 1 .. Len(s) |-> s[Len(s) + 1 - i]]

RECURSIVE MaxDepth(_, _)
\* content.iter().fold(0, |acc, val| val.get_depth().max(acc)) up to index i.
MaxDepth(content, i) ==
    IF i = 0 THEN 0 ELSE Max2(get_depth(content[i]), MaxDepth(content, i - 1))

RECURSIVE DeepCopyLoop(_, _, _, _)
DeepCopyLoop(c, stack, visited, adjacency) ==
    IF stack = <<>> THEN adjacency
    ELSE LET node == Last(stack)
             rest == SubSeq(stack, 1, Len(stack) - 1)
             succs == IF node \in DOMAIN c.edges
                      THEN SelectSeq(c.edges[node], LAMBDA x : x # None)
                      ELSE <<>>
         IN IF node \notin visited
            THEN DeepCopyLoop(c, rest \o succs, visited \cup {node},
                     (Basic(node) :> [i \in DOMAIN succs |-> Basic(succs[i])])
                         @@ adjacency)
            ELSE DeepCopyLoop(c, rest, visited, adjacency)

\* deep_copy without the test that the CFG is not empty.
deep_copy_unguarded(c) ==
    [root |-> Basic(c.root), adjacency |-> DeepCopyLoop(c, <<c.root>>, {}, <<>>)]

deep_copy(c) ==
    IF DOMAIN c.edges = {} THEN EmptyGraph
    ELSE [root |-> Basic(c.root),
          adjacency |-> DeepCopyLoop(c, <<c.root>>, {}, <<>>)]

(***************************************************************************)
(* The reducers.  A reducer returns None, Some((new, next)) or panics on   *)
(* an unwrap; by names the reducer that answered.                          *)
(***************************************************************************)

NoMatch ==
    [tag |-> "none", new |-> NoBlock, next |-> NoBlock, by |-> "none",
     node |-> NoBlock]

Panicked(by) ==
    [tag |-> "panic", new |-> NoBlock, next |-> NoBlock, by |-> by,
     node |-> NoBlock]

Matched(new, next, by) ==
    [tag |-> "some", new |-> new, next |-> next, by |-> by, node |-> NoBlock]

\* reduce_self_loop giving the SelfLooping block the depth of the node it wraps.
reduce_self_loop_flat(node, g, preds, loops) ==
    IF node.type = "Basic"
    THEN LET children == g.adjacency[node]
         IN IF Len(children) = 2 /\ node \in Range(children)
            THEN LET others == SelectSeq(children, LAMBDA x : x # node)
                 IN IF others = <<>>
                    THEN Panicked("self_loop")
                    ELSE Matched(Nested("SelfLooping", <<node>>, get_depth(node)),
                                 Last(others), "self_loop")
            ELSE NoMatch
    ELSE NoMatch

reduce_self_loop(node, g, preds, loops) ==
    IF node.type = "Basic"
    THEN LET children == g.adjacency[node]
         IN IF Len(children) = 2 /\ node \in Range(children)
            THEN LET others == SelectSeq(children, LAMBDA x : x # node)
                 IN IF others = <<>>
                    THEN Panicked("self_loop")
                    ELSE Matched(Nested("SelfLooping", <<node>>, get_depth(node) + 1),
                                 Last(others), "self_loop")
            ELSE NoMatch
    ELSE NoMatch

\* A Sequence built from the two blocks as they are, without flattening.
construct_sequence_nested(node, next) ==
    LET content == <<node, next>>
    IN Nested("Sequence", content, MaxDepth(content, Len(content)) + 1)

construct_and_flatten_sequence(node, next) ==
    LET flatten(b) == IF b.type = "Sequence" THEN b.content ELSE <<b>>
        content == flatten(node) \o flatten(next)
    IN Nested("Sequence", content, MaxDepth(content, Len(content)) + 1)

\* reduce_sequence accepting a successor with two successors of its own.
reduce_sequence_anyexit(node, g, preds, loops) ==
    LET children == g.adjacency[node]
    IN IF Len(children) = 1
       THEN LET next == children[1]
            IN IF ~HasNode(g, next)
               THEN Panicked("sequence")
               ELSE LET nextnexts == g.adjacency[next]
                    IN IF Cardinality(preds[next]) = 1
                       THEN Matched(construct_and_flatten_sequence(node, next),
                                    IF nextnexts = <<>> THEN NoBlock
                                    ELSE Last(nextnexts),
                                    "sequence")
                       ELSE NoMatch
       ELSE NoMatch

reduce_sequence(node, g, preds, loops) ==
    LET children == g.adjacency[node]
    IN IF Len(children) = 1
       THEN LET next == children[1]
            IN IF ~HasNode(g, next)
               THEN Panicked("sequence")
               ELSE LET nextnexts == g.adjacency[next]
                    IN IF Cardinality(preds[next]) = 1 /\ Len(nextnexts) <= 1
                       THEN Matched(construct_and_flatten_sequence(node, next),
                                    IF nextnexts = <<>> THEN NoBlock
                                    ELSE Last(nextnexts),
                                    "sequence")
                       ELSE NoMatch
       ELSE NoMatch

RECURSIVE AscendLoop(_, _, _, _)
AscendLoop(st, cont, g, preds) ==
    IF Cardinality(preds[st.cur_head]) = 1
    THEN LET cur_head == CHOOSE p \in preds[st.cur_head] : TRUE
         IN IF cur_head \notin st.visited
            THEN LET head_children == g.adjacency[cur_head]
                 IN IF Len(head_children) = 2
                       /\ (head_children[1] = cont \/ head_children[2] = cont)
                    THEN AscendLoop(
                             [rev_chain |-> Append(st.rev_chain, cur_head),
                              visited |-> st.visited \cup {cur_head},
                              cur_head |-> cur_head,
                              depth |-> Max2(st.depth, get_depth(cur_head))],
                             cont, g, preds)
                    ELSE st
            ELSE st
    ELSE st

ascend_if_chain(rev_chain, cont, g, preds, depth) ==
    LET st == AscendLoop([rev_chain |-> rev_chain, visited |-> Range(rev_chain),
                          cur_head |-> Last(rev_chain), depth |-> depth],
                         cont, g, preds)
    IN [rev_chain |-> st.rev_chain, depth |-> st.depth]

\* reduce_ifthen without the exchange of cont and then: the then block is
\* looked for in the next slot only.
reduce_ifthen_noswap(node, g, preds, loops) ==
    LET children == g.adjacency[node]
    IN IF Len(children) = 2
       THEN LET head == node
                cont == children[2]
                then == children[1]
            IN IF ~HasNode(g, children[2]) \/ ~HasNode(g, children[1])
               THEN Panicked("ifthen")
               ELSE IF /\ Len(g.adjacency[then]) = 1
                       /\ g.adjacency[then][1] = cont
                       /\ Cardinality(preds[then]) = 1
                    THEN LET up == ascend_if_chain(<<then, head>>, cont, g, preds,
                                       Max2(get_depth(then), get_depth(head)))
                         IN Matched(Nested("IfThen", Reverse(up.rev_chain), up.depth + 1),
                                    cont, "ifthen")
                    ELSE NoMatch
       ELSE NoMatch

reduce_ifthen(node, g, preds, loops) ==
    LET children == g.adjacency[node]
    IN IF Len(children) = 2
       THEN LET head == node
                swapped ==
                    /\ Len(g.adjacency[children[2]]) = 1
                    /\ g.adjacency[children[2]][1] = children[1]
                    /\ Cardinality(preds[children[2]]) = 1
                cont == IF swapped THEN children[1] ELSE children[2]
                then == IF swapped THEN children[2] ELSE children[1]
            IN IF ~HasNode(g, children[2]) \/ ~HasNode(g, children[1])
               THEN Panicked("ifthen")
               ELSE IF /\ Len(g.adjacency[then]) = 1
                       /\ g.adjacency[then][1] = cont
                       /\ Cardinality(preds[then]) = 1
                    THEN LET up == ascend_if_chain(<<then, head>>, cont, g, preds,
                                       Max2(get_depth(then), get_depth(head)))
                         IN Matched(Nested("IfThen", Reverse(up.rev_chain), up.depth + 1),
                                    cont, "ifthen")
                    ELSE NoMatch
       ELSE NoMatch

\* reduce_ifelse that does not compare the successors of the two branches.
reduce_ifelse_nojoin(node, g, preds, loops) ==
    LET node_children == g.adjacency[node]
    IN IF Len(node_children) = 2
       THEN LET swapped == Cardinality(preds[node_children[1]]) > 1
                thenb == IF swapped THEN node_children[2] ELSE node_children[1]
                elseb == IF swapped THEN node_children[1] ELSE node_children[2]
            IN IF swapped /\ Cardinality(preds[node_children[2]]) # 1
               THEN NoMatch
               ELSE IF ~HasNode(g, thenb) \/ ~HasNode(g, elseb)
                    THEN Panicked("ifelse")
                    ELSE LET thenb_children == g.adjacency[thenb]
                             elseb_children == g.adjacency[elseb]
                         IN IF Len(thenb_children) = 1 /\ Len(elseb_children) = 1
                            THEN LET up == ascend_if_chain(<<elseb, thenb, node>>, elseb,
                                               g, preds,
                                               Max2(Max2(get_depth(elseb), get_depth(thenb)),
                                                    get_depth(node)))
                                 IN Matched(Nested("IfThenElse", Reverse(up.rev_chain),
                                                   up.depth + 1),
                                            elseb_children[1], "ifelse")
                            ELSE NoMatch
       ELSE NoMatch

reduce_ifelse(node, g, preds, loops) ==
    LET node_children == g.adjacency[node]
    IN IF Len(node_children) = 2
       THEN LET swapped == Cardinality(preds[node_children[1]]) > 1
                thenb == IF swapped THEN node_children[2] ELSE node_children[1]
                elseb == IF swapped THEN node_children[1] ELSE node_children[2]
            IN IF swapped /\ Cardinality(preds[node_children[2]]) # 1
               THEN NoMatch
               ELSE IF ~HasNode(g, thenb) \/ ~HasNode(g, elseb)
                    THEN Panicked("ifelse")
                    ELSE LET thenb_children == g.adjacency[thenb]
                             elseb_children == g.adjacency[elseb]
                         IN IF /\ Len(thenb_children) = 1
                               /\ Len(elseb_children) = 1
                               /\ thenb_children[1] = elseb_children[1]
                            THEN LET up == ascend_if_chain(<<elseb, thenb, node>>, elseb,
                                               g, preds,
                                               Max2(Max2(get_depth(elseb), get_depth(thenb)),
                                                    get_depth(node)))
                                 IN Matched(Nested("IfThenElse", Reverse(up.rev_chain),
                                                   up.depth + 1),
                                            elseb_children[1], "ifelse")
                            ELSE NoMatch
       ELSE NoMatch

\* find_while taking the second successor as the tail without looking for
\* the back edge.
find_while_noswap(node, next0, tail0, g) ==
    IF ~HasNode(g, next0) \/ ~HasNode(g, tail0)
    THEN Panicked("loop")
    ELSE LET tail_children == g.adjacency[tail0]
         IN IF Len(tail_children) = 1 /\ tail_children[1] = node
            THEN Matched(Nested("While", <<node, tail0>>,
                                Max2(get_depth(node), get_depth(tail0)) + 1),
                         next0, "loop")
            ELSE NoMatch

find_while(node, next0, tail0, g) ==
    IF ~HasNode(g, next0)
    THEN Panicked("loop")
    ELSE LET swapped == node \in Range(g.adjacency[next0])
             next == IF swapped THEN tail0 ELSE next0
             tail == IF swapped THEN next0 ELSE tail0
         IN IF ~HasNode(g, tail)
            THEN Panicked("loop")
            ELSE LET tail_children == g.adjacency[tail]
                 IN IF Len(tail_children) = 1 /\ tail_children[1] = node
                    THEN Matched(Nested("While", <<node, tail>>,
                                        Max2(get_depth(node), get_depth(tail)) + 1),
                                 next, "loop")
                    ELSE NoMatch

find_dowhile(node, tail, tail_children, g) ==
    IF Len(tail_children) = 2
    THEN IF node \notin Range(tail_children)
         THEN IF ~HasNode(g, tail_children[1]) \/ ~HasNode(g, tail_children[2])
              THEN Panicked("loop")
              ELSE LET post_tail_children ==
                           <<g.adjacency[tail_children[1]], g.adjacency[tail_children[2]]>>
                       first == /\ Len(post_tail_children[1]) = 1
                                /\ post_tail_children[1][1] = node
                       second == /\ Len(post_tail_children[2]) = 1
                                 /\ post_tail_children[2][1] = node
                       post_tail == IF first THEN tail_children[1] ELSE tail_children[2]
                       next == IF first THEN tail_children[2] ELSE tail_children[1]
                   IN IF first \/ second
                      THEN Matched(Nested("DoWhile", <<node, tail, post_tail>>,
                                          Max2(get_depth(node),
                                               Max2(get_depth(tail), get_depth(post_tail)))
                                              + 1),
                                   next, "loop")
                      ELSE NoMatch
         ELSE LET next == IF tail_children[1] = node THEN tail_children[2]
                          ELSE tail_children[1]
              IN Matched(Nested("DoWhile", <<node, tail>>,
                                Max2(get_depth(node), get_depth(tail)) + 1),
                         next, "loop")
    ELSE NoMatch

reduce_loop(node, g, preds, loops) ==
    IF loops[node] /\ Cardinality(preds[node]) > 1
    THEN LET head_children == g.adjacency[node]
         IN IF Len(head_children) = 2
            THEN find_while(node, head_children[1], head_children[2], g)
            ELSE IF Len(head_children) = 1
                 THEN IF ~HasNode(g, head_children[1])
                      THEN Panicked("loop")
                      ELSE find_dowhile(node, head_children[1],
                                        g.adjacency[head_children[1]], g)
                 ELSE NoMatch
    ELSE NoMatch

\* remap_nodes leaving the new block without its successor.
remap_nodes_unwired(new, next, g) ==
    IF DOMAIN g.adjacency # {}
    THEN LET remove_list == Range(new.content)
             kept == [node \in {n \in DOMAIN g.adjacency : n \notin remove_list} |->
                         [i \in DOMAIN g.adjacency[node] |->
                             IF g.adjacency[node][i] \notin remove_list
                             THEN g.adjacency[node][i]
                             ELSE new]]
             new_adjacency == (new :> <<>>) @@ kept
             new_root == IF g.root \notin remove_list THEN g.root ELSE new
             reachables == Preorder(new_adjacency, new_root)
         IN [root |-> new_root,
             adjacency |-> [node \in DOMAIN new_adjacency \cap reachables |->
                               new_adjacency[node]]]
    ELSE g

\* remap_nodes that never moves the root.
remap_nodes_oldroot(new, next, g) ==
    IF DOMAIN g.adjacency # {}
    THEN LET remove_list == Range(new.content)
             kept == [node \in {n \in DOMAIN g.adjacency : n \notin remove_list} |->
                         [i \in DOMAIN g.adjacency[node] |->
                             IF g.adjacency[node][i] \notin remove_list
                             THEN g.adjacency[node][i]
                             ELSE new]]
             replacement == IF next = NoBlock THEN <<>> ELSE <<next>>
             new_adjacency == (new :> replacement) @@ kept
             reachables == Preorder(new_adjacency, g.root)
         IN [root |-> g.root,
             adjacency |-> [node \in DOMAIN new_adjacency \cap reachables |->
                               new_adjacency[node]]]
    ELSE g

\* remap_nodes that leaves the children of the kept nodes as they are: no
\* edge is redirected to the new block.
remap_nodes_unreplaced(new, next, g) ==
    IF DOMAIN g.adjacency # {}
    THEN LET remove_list == Range(new.content)
             kept == [node \in {n \in DOMAIN g.adjacency : n \notin remove_list} |->
                         g.adjacency[node]]
             replacement == IF next = NoBlock THEN <<>> ELSE <<next>>
             new_adjacency == (new :> replacement) @@ kept
             new_root == IF g.root \notin remove_list THEN g.root ELSE new
             reachables == Preorder(new_adjacency, new_root)
         IN [root |-> new_root,
             adjacency |-> [node \in DOMAIN new_adjacency \cap reachables |->
                               new_adjacency[node]]]
    ELSE g

remap_nodes(new, next, g) ==
    IF DOMAIN g.adjacency # {}
    THEN LET remove_list == Range(new.content)
             kept == [node \in {n \in DOMAIN g.adjacency : n \notin remove_list} |->
                         [i \in DOMAIN g.adjacency[node] |->
                             IF g.adjacency[node][i] \notin remove_list
                             THEN g.adjacency[node][i]
                             ELSE new]]
             replacement == IF next = NoBlock THEN <<>> ELSE <<next>>
             new_adjacency == (new :> replacement) @@ kept
             new_root == IF g.root \notin remove_list THEN g.root ELSE new
             reachables == Preorder(new_adjacency, new_root)
         IN [root |-> new_root,
             adjacency |-> [node \in DOMAIN new_adjacency \cap reachables |->
                               new_adjacency[node]]]
    ELSE g

\* The inner loop of build_cfs over the five reducers, lines 411-424.
Reductions(node, g, preds, loops) ==
    LET r1 == reduce_self_loop(node, g, preds, loops)
        r2 == reduce_sequence(node, g, preds, loops)
        r3 == reduce_ifthen(node, g, preds, loops)
        r4 == reduce_ifelse(node, g, preds, loops)
        r5 == reduce_loop(node, g, preds, loops)
    IN IF r1.tag # "none" THEN r1
       ELSE IF r2.tag # "none" THEN r2
       ELSE IF r3.tag # "none" THEN r3
       ELSE IF r4.tag # "none" THEN r4
       ELSE r5

RECURSIVE FirstReduction(_, _, _, _, _)
FirstReduction(po, i, g, preds, loops) ==
    IF i > Len(po) THEN NoMatch
    ELSE LET r == Reductions(po[i], g, preds, loops)
         IN IF r.tag # "none" THEN [r EXCEPT !.node = po[i]]
            ELSE FirstReduction(po, i + 1, g, preds, loops)

\* A pass of the driver that visits the nodes outermost first.
DriverPass_outermost(g) ==
    FirstReduction(Reverse(Postorder(g.adjacency, g.root)), 1, g,
                   Predecessors(g.adjacency), is_loop(Scc(g.adjacency)))

\* One pass of the driver over the post-order, lines 407-424.
DriverPass(g) ==
    FirstReduction(Postorder(g.adjacency, g.root), 1, g,
                   Predecessors(g.adjacency), is_loop(Scc(g.adjacency)))

\* The outcome of Option::unwrap on None.
UnwrapPanic == [type |-> "Panic", id |-> None, content |-> <<>>, depth |-> 0]

\* get_tree answering with the root as soon as the graph is not empty.
get_tree_nonempty(tree) ==
    IF GraphLen(tree) >= 1
    THEN IF tree.root = NoBlock THEN UnwrapPanic ELSE tree.root
    ELSE NoBlock

\* CFS::get_tree; NoBlock stands for the answer None.
get_tree(tree) ==
    IF GraphLen(tree) = 1
    THEN IF tree.root = NoBlock THEN UnwrapPanic ELSE tree.root
    ELSE NoBlock

\* CFS::get_cfg.
get_cfg(stored) == stored

\* CFS::new keeping in its cfg field the CFG that build_cfs denatured.
new_cfg_denatured(input, denatured) == denatured

\* CFS::new, line 19: the cfg field is a clone of the argument; denatured is
\* the clone that build_cfs handed to remove_natural_loops.
new_cfg(input, denatured) == input

(***************************************************************************)
(* Inputs.                                                                 *)
(***************************************************************************)

Slots(n) ==
    {<<None, None>>} \cup {<<a, None>> : a \in 0 .. n - 1}
        \cup {<<a, b>> : a, b \in 0 .. n - 1}

\* Every node is reachable from the root: the CFG of a function.
Connected(c) ==
    c.root = None \/ Preorder(CfgChildren(c), c.root) = DOMAIN c.edges

SmallCFGs ==
    UNION {{c \in {[root |-> IF n = 0 THEN None ELSE 0, edges |-> e] :
                      e \in [0 .. n - 1 -> Slots(n)]} : Connected(c)} :
           n \in 0 .. MaxNodes}

\* The CFGs of the unit tests, lines 716-1054.
Test_constructor_empty == MkCFG(<<>>)

Test_reduce_sequence == MkCFG(<<<<1>>, <<2>>, <<3>>, <<4>>, <<>>>>)

Test_reduce_self_loop == MkCFG(<<<<1>>, <<2, 1>>, <<>>>>)

Test_reduce_if_then_next == MkCFG(<<<<1>>, <<2, 3>>, <<3>>, <<4>>, <<>>>>)

Test_reduce_if_then_cond == MkCFG(<<<<1>>, <<3, 2>>, <<3>>, <<4>>, <<>>>>)

Test_short_circuit_if_then == MkCFG(<<<<1, 3>>, <<2, 3>>, <<3>>, <<>>>>)

Test_short_circuit_if_then_tricky ==
    MkCFG(<<<<1, 4>>, <<2, 4>>, <<4, 3>>, <<4>>, <<>>>>)

Test_reduce_if_else == MkCFG(<<<<1>>, <<2, 3>>, <<4>>, <<4>>, <<5>>, <<>>>>)

Test_short_circuit_if_else ==
    MkCFG(<<<<1, 3>>, <<2, 3>>, <<3, 4>>, <<5>>, <<5>>, <<>>>>)

Test_if_else_looping == MkCFG(<<<<1, 2>>, <<3, 1>>, <<3, 2>>, <<>>>>)

Test_whileb == MkCFG(<<<<1>>, <<2, 3>>, <<1>>, <<>>>>)

Test_dowhile_type1 == MkCFG(<<<<1>>, <<2>>, <<1, 3>>, <<>>>>)

Test_dowhile_type2 == MkCFG(<<<<1>>, <<2>>, <<3>>, <<4, 1>>, <<>>>>)

Test_dowhile_type3 == MkCFG(<<<<1>>, <<2>>, <<3, 4>>, <<1>>, <<>>>>)

Test_dowhile_type4 == MkCFG(<<<<1>>, <<2>>, <<3>>, <<4, 5>>, <<1>>, <<>>>>)

Test_structures_inside_loop ==
    MkCFG(<<<<1>>, <<2>>, <<3, 4>>, <<5, 3>>, <<5>>, <<6, 1>>, <<>>>>)

Test_nested_while == MkCFG(<<<<1>>, <<4, 2>>, <<3, 1>>, <<2>>, <<>>>>)

Test_nested_dowhile_sharing == MkCFG(<<<<1>>, <<2>>, <<3, 1>>, <<4, 2>>, <<>>>>)

Test_nested_dowhile == MkCFG(<<<<1>>, <<2>>, <<3>>, <<4, 2>>, <<5, 1>>, <<>>>>)

Test_nat_loop_break_while == MkCFG(<<<<1>>, <<2, 4>>, <<3, 4>>, <<1>>, <<>>>>)

Test_nat_loop_break_dowhile == MkCFG(<<<<1>>, <<2>>, <<3, 4>>, <<4, 1>>, <<>>>>)

Test_nat_loop_return_while ==
    MkCFG(<<<<1>>, <<2, 6>>, <<3, 6>>, <<6, 4>>, <<5, 8>>, <<8, 1>>, <<7>>, <<8>>, <<>>>>)

Test_nat_loop_return_do_while ==
    MkCFG(<<<<1>>, <<2>>, <<3, 6>>, <<6, 4>>, <<5, 8>>, <<8, 1>>, <<7>>, <<8>>, <<>>>>)

Test_nat_loop_return_orphaning ==
    MkCFG(<<<<1>>, <<2, 8>>, <<3, 6>>, <<6, 4>>, <<5, 7>>, <<8, 1>>, <<7>>, <<9>>,
            <<9>>, <<>>>>)

TestCFGs ==
    {Test_constructor_empty, Test_reduce_sequence, Test_reduce_self_loop,
     Test_reduce_if_then_next, Test_reduce_if_then_cond, Test_short_circuit_if_then,
     Test_short_circuit_if_then_tricky, Test_reduce_if_else,
     Test_short_circuit_if_else, Test_if_else_looping, Test_whileb,
     Test_dowhile_type1, Test_dowhile_type2, Test_dowhile_type3, Test_dowhile_type4,
     Test_structures_inside_loop, Test_nested_while, Test_nested_dowhile_sharing,
     Test_nested_dowhile, Test_nat_loop_break_while, Test_nat_loop_break_dowhile,
     Test_nat_loop_return_while, Test_nat_loop_return_do_while,
     Test_nat_loop_return_orphaning}

\* c with the two successor slots of node n exchanged.
SwapSlots(c, n) == [c EXCEPT !.edges[n] = <<@[2], @[1]>>]

\* The five single-exit loop tests with the slots of the branching node of
\* the loop exchanged.
SwappedLoopCFGs ==
    {SwapSlots(Test_whileb, 1), SwapSlots(Test_dowhile_type1, 2),
     SwapSlots(Test_dowhile_type2, 3), SwapSlots(Test_dowhile_type3, 2),
     SwapSlots(Test_dowhile_type4, 3)}

\* Loops of two nodes whose two exit edges land on two leaves, which have the
\* same depth: the loop holds the root, or follows it.
TiedTargetCFGs ==
    {MkCFG(<<<<1, 2>>, <<0, 3>>, <<>>, <<>>>>),
     MkCFG(<<<<1>>, <<2, 3>>, <<1, 4>>, <<>>, <<>>>>)}

\* A loop of three nodes with two exit nodes, entered through a node whose
\* next and cond edges are the same edge.
DoubledEdgeCFGs ==
    {MkCFG(<<<<1, 1>>, <<2, 3>>, <<0, 3>>, <<>>>>)}

\* A loop whose tail branches to two blocks that both jump back to the head:
\* entered at the head, and entered at the tail.
TwinPostTailCFGs ==
    {MkCFG(<<<<1>>, <<2, 3>>, <<0>>, <<0>>>>),
     MkCFG(<<<<1>>, <<2, 3>>, <<4>>, <<4>>, <<1>>>>)}

InputCFGs ==
    SmallCFGs \cup TestCFGs \cup SwappedLoopCFGs \cup TiedTargetCFGs
        \cup DoubledEdgeCFGs \cup TwinPostTailCFGs

Init ==
    /\ cfg \in InputCFGs
    /\ cfs_cfg = EmptyCFG
    /\ pc = "new"
    /\ nonat_cfg = EmptyCFG
    /\ calls = <<>>
    /\ graph = EmptyGraph
    /\ reduced = NoMatch
    /\ before = 0
    /\ iter = 0
    /\ build = 1
    /\ first_tree = NoBlock

\* build_cfs, line 404: the SCCs and predecessors are those of the input.
RemoveNaturalLoops ==
    /\ pc = "new"
    /\ LET sccs == Scc(CfgChildren(cfg))
           preds == Predecessors(CfgChildren(cfg))
           comps == Range(sccs)
       IN \E nodes \in KeysOver(comps), orders \in OrdersOver(cfg, comps) :
              /\ nonat_cfg' = remove_natural_loops(sccs, preds, cfg, nodes, orders)
              /\ calls' = NaturalLoopsCalls(nodes, 1, {}, sccs, preds,
                               calculate_depth(cfg), cfg, orders)
    /\ pc' = "copy"
    /\ UNCHANGED <<cfg, cfs_cfg, graph, reduced, before, iter, build, first_tree>>

\* build_cfs, line 405.
DeepCopy ==
    /\ pc = "copy"
    /\ graph' = deep_copy(nonat_cfg)
    /\ pc' = "driver"
    /\ UNCHANGED <<cfg, cfs_cfg, nonat_cfg, calls, reduced, before, iter, build, first_tree>>

\* build_cfs, lines 406-434: one iteration of the outer loop.
DriverIteration ==
    /\ pc = "driver"
    /\ LET pass == DriverPass(graph)
       IN IF pass.tag = "some"
          THEN /\ iter < MaxIter
               /\ graph' = remap_nodes(pass.new, pass.next, graph)
               /\ reduced' = pass
               /\ before' = GraphLen(graph)
               /\ iter' = iter + 1
               /\ pc' = "driver"
               /\ UNCHANGED cfs_cfg
          ELSE /\ pc' = IF pass.tag = "panic" THEN "panic" ELSE "done"
               /\ cfs_cfg' = IF pass.tag = "panic" THEN cfs_cfg
                             ELSE new_cfg(cfg, nonat_cfg)
               /\ UNCHANGED <<graph, reduced, before, iter>>
    /\ UNCHANGED <<cfg, nonat_cfg, calls, build, first_tree>>

\* CFS::new(first.get_cfg()) after CFS::new(cfg) returned.
Rebuild ==
    /\ pc = "done"
    /\ build = 1
    /\ first_tree' = get_tree(graph)
    /\ cfg' = get_cfg(cfs_cfg)
    /\ cfs_cfg' = EmptyCFG
    /\ build' = 2
    /\ pc' = "new"
    /\ nonat_cfg' = EmptyCFG
    /\ calls' = <<>>
    /\ graph' = EmptyGraph
    /\ reduced' = NoMatch
    /\ before' = 0
    /\ iter' = 0

Next == RemoveNaturalLoops \/ DeepCopy \/ DriverIteration \/ Rebuild

Spec == Init /\ [][Next]_vars

\* CFS::new has returned: the object exists and can be queried.
Built == pc = "done"

(***************************************************************************)
(* C1.  get_tree                                                           *)
(***************************************************************************)

\* C1: once CFS::new has returned, get_tree answers Some(block) exactly when
\* the structure graph has exactly one node and None otherwise; the block it
\* answers is the root of the graph, the root is the one key of the
\* adjacency, and the unwrap of the root does not fail.
C1_GetTree ==
    Built =>
        LET t == get_tree(graph)
        IN /\ t # UnwrapPanic
           /\ (t # NoBlock) <=> (Cardinality(DOMAIN graph.adjacency) = 1)
           /\ t # NoBlock => t = graph.root /\ DOMAIN graph.adjacency = {graph.root}

\* C1 witness: a build of a CFG of several nodes ended with a one-node graph,
\* so that get_tree answers Some(root), a nested block.
C1_Witness ==
    /\ Built
    /\ Cardinality(DOMAIN cfg.edges) > 1
    /\ GraphLen(graph) = 1
    /\ get_tree(graph) = graph.root
    /\ graph.root.type = "Sequence"

(***************************************************************************)
(* C2.  Termination of the driver                                          *)
(***************************************************************************)

\* The driver has made MaxIter reductions and its next pass matches again.
StillReducing == pc = "driver" /\ iter = MaxIter /\ DriverPass(graph).tag = "some"

\* The pass of the driver matches and remap_nodes gives back the graph it
\* was given: modified is set, so the same pass is repeated without end.
Spinning ==
    /\ pc = "driver"
    /\ LET pass == DriverPass(graph)
       IN pass.tag = "some" /\ remap_nodes(pass.new, pass.next, graph) = graph

\* C2: on every input CFG (finite, at most two successors per node, no
\* dangling edge) the driver reaches a pass over the post-order in which no
\* reducer matches; in particular it never reaches a pass that matches and
\* leaves the graph as it was, from which it cannot halt.
C2_DriverHalts == ~Spinning

(***************************************************************************)
(* C3.  Reduction monotonicity                                             *)
(***************************************************************************)

RECURSIVE LeafSeq(_)
RECURSIVE LeafSeqOf(_, _)
\* The Basic leaves of the blocks content[i..], left to right.
LeafSeqOf(content, i) ==
    IF i > Len(content) THEN <<>>
    ELSE LeafSeq(content[i]) \o LeafSeqOf(content, i + 1)

\* The identifiers of the Basic leaves of a block, with multiplicity.
LeafSeq(b) == IF b.type = "Basic" THEN <<b.id>> ELSE LeafSeqOf(b.content, 1)

\* get_tree answers Some(tree).
HasTree == Built /\ get_tree(graph) \notin {NoBlock, UnwrapPanic}

\* C4: whenever get_tree returns a tree, the number of its Basic leaves,
\* counted with multiplicity, is the number of nodes of the input CFG.
C4_SizeConservation ==
    HasTree => Len(LeafSeq(get_tree(graph))) = Cardinality(DOMAIN cfg.edges)

(***************************************************************************)
(* C5.  Depth law                                                          *)
(***************************************************************************)

RECURSIVE DepthLaw(_)
\* Basic blocks have depth 0 and every nested block, at every level, has
\* depth 1 + the maximum depth of its content.
DepthLaw(b) ==
    IF b.type = "Basic" THEN b.depth = 0
    ELSE /\ b.content # <<>>
         /\ b.depth = 1 + MaxDepth(b.content, Len(b.content))
         /\ \A i \in DOMAIN b.content : DepthLaw(b.content[i])

\* The blocks of a structure graph: its keys and their successors.
BlocksOf(g) ==
    DOMAIN g.adjacency \cup UNION {Range(g.adjacency[n]) : n \in DOMAIN g.adjacency}

\* C5: every block of every intermediate structure graph and of the final
\* tree, and the block just created by a reducer, obeys the depth law at
\* every level of nesting.
C5_DepthLaw ==
    /\ \A b \in BlocksOf(graph) : DepthLaw(b)
    /\ reduced.tag = "some" => DepthLaw(reduced.new)

\* C5 witness: the final tree holds an IfThen block whose content was
\* extended by the short-circuit ascent (two heads and the then block) and
\* that obeys the depth law.
C5_Witness ==
    /\ HasTree
    /\ \E i \in DOMAIN graph.root.content :
           LET b == graph.root.content[i]
           IN b.type = "IfThen" /\ Len(b.content) = 3 /\ b.depth = 1
    /\ graph.root.depth = 2

(***************************************************************************)
(* C6.  Idempotence                                                        *)
(***************************************************************************)

\* C6: the tree of CFS::new(first.get_cfg()) equals the tree of the first
\* build (or both are None), whatever iteration orders the two builds meet.
C6_Idempotent == (Built /\ build = 2) => get_tree(graph) = first_tree

(***************************************************************************)
(* C7.  Denaturation leaves a single target                                *)
(***************************************************************************)

\* The exit edges of a component: <<source, slot>> of the edges leaving it.
ExitEdges(c, comp) ==
    {e \in comp \X {1, 2} : c.edges[e[1]][e[2]] # None /\ c.edges[e[1]][e[2]] \notin comp}

\* The components of the input CFG with several nodes and several exit edges.
MultiExitLoops ==
    {comp \in Range(Scc(CfgChildren(cfg))) :
        Cardinality(comp) > 1 /\ Cardinality(ExitEdges(cfg, comp)) > 1}

\* C7: after remove_natural_loops every edge that still leaves a loop of
\* several exit edges lands on one and the same node.
C7_SingleTarget ==
    pc # "new" =>
        \A comp \in MultiExitLoops : Cardinality(TargetsOf(nonat_cfg, comp)) <= 1

(***************************************************************************)
(* C8, C9, C10.  Trees of the loop tests                                   *)
(***************************************************************************)

\* The build has stopped: it returned, panicked, or is past MaxIter reductions.
Stopped == Built \/ pc = "panic" \/ StillReducing

\* The tree is a Sequence of n children whose second child has type loop.
SequenceAround(tree, n, loop) ==
    /\ tree.type = "Sequence"
    /\ Len(tree.content) = n
    /\ tree.content[2].type = loop

\* C8: for every iteration order of denaturation, the build of the do-while
\* with a return (nat_loop_return_do_while) returns a Sequence of 5 children
\* whose second child is a DoWhile, and the build of the same CFG with head
\* 1 -> [2, 6] (nat_loop_return_while) one whose second child is a While.
C8_ReturnLoops ==
    /\ (Stopped /\ cfg = Test_nat_loop_return_do_while)
           => Built /\ SequenceAround(get_tree(graph), 5, "DoWhile")
    /\ (Stopped /\ cfg = Test_nat_loop_return_while)
           => Built /\ SequenceAround(get_tree(graph), 5, "While")

\* C9: for every iteration order of denaturation, the build of a loop with
\* a break returns a Sequence of 3 children whose second child is a While
\* when the head has two successors (nat_loop_break_while) and a DoWhile
\* when it has one (nat_loop_break_dowhile).
C9_BreakLoops ==
    /\ (Stopped /\ cfg = Test_nat_loop_break_while)
           => Built /\ SequenceAround(get_tree(graph), 3, "While")
    /\ (Stopped /\ cfg = Test_nat_loop_break_dowhile)
           => Built /\ SequenceAround(get_tree(graph), 3, "DoWhile")

\* The four do-while shapes, with the back edge in either slot.
DoWhileCFGs ==
    {Test_dowhile_type1, Test_dowhile_type2, Test_dowhile_type3, Test_dowhile_type4,
     SwapSlots(Test_dowhile_type1, 2), SwapSlots(Test_dowhile_type2, 3),
     SwapSlots(Test_dowhile_type3, 2), SwapSlots(Test_dowhile_type4, 3)}

\* The while shape, with the edge into the loop body in either slot.
WhileCFGs == {Test_whileb, SwapSlots(Test_whileb, 1)}

\* Sequence[Basic, loop, Basic] with the entry node first and the exit node last.
BasicLoopBasic(tree, loop, exit) ==
    /\ SequenceAround(tree, 3, loop)
    /\ tree.content[1] = Basic(0)
    /\ tree.content[3] = Basic(exit)

\* C10: the build of each single-exit loop shape between an entry and an
\* exit node stops by returning Sequence[Basic, loop, Basic], the loop being
\* a While for the while shape and a DoWhile for the four do-while shapes,
\* whichever slot holds the back edge.
C10_SingleExitLoops ==
    /\ (Stopped /\ cfg \in WhileCFGs)
           => Built /\ BasicLoopBasic(get_tree(graph), "While",
                                      Cardinality(DOMAIN cfg.edges) - 1)
    /\ (Stopped /\ cfg \in DoWhileCFGs)
           => Built /\ BasicLoopBasic(get_tree(graph), "DoWhile",
                                      Cardinality(DOMAIN cfg.edges) - 1)

\* C10 witness: the build of the largest do-while shape with the back edge
\* in the next slot has returned Sequence[0, DoWhile[..], 5].
C10_Witness ==
    /\ Built
    /\ cfg = SwapSlots(Test_dowhile_type4, 3)
    /\ BasicLoopBasic(get_tree(graph), "DoWhile", 5)
    /\ Len(get_tree(graph).content[2].content) = 3

(***************************************************************************)
(* C11.  Innermost structures first                                        *)
(***************************************************************************)

RECURSIVE Descendants(_)
\* The blocks nested inside a block, at any level.
Descendants(b) ==
    Range(b.content) \cup UNION {Descendants(b.content[i]) : i \in DOMAIN b.content}

\* The loop tests with a structure nested inside the loop.
NestedLoopCFGs ==
    {Test_nested_while, Test_nested_dowhile_sharing, Test_nested_dowhile,
     Test_structures_inside_loop}

\* The kind of the outer loop of a test of NestedLoopCFGs.
OuterKind(c) == IF c = Test_nested_while THEN "While" ELSE "DoWhile"

\* The kinds of the structures inside the outer loop of a test.
InnerKinds(c) ==
    IF c = Test_structures_inside_loop THEN {"SelfLooping", "IfThenElse"}
    ELSE {OuterKind(c)}

\* The nodes of the outer loop of a test: all but the entry and the exit node.
OuterLoopNodes(c) == DOMAIN c.edges \ {0, Cardinality(DOMAIN c.edges) - 1}

\* Block b holds a block of every kind of kinds at some level below it.
HoldsKinds(b, kinds) == \A k \in kinds : \E d \in Descendants(b) : d.type = k

\* C11: in the builds of the nested-loop tests the loop reducer creates the
\* outer loop block (the one over all the nodes of the loop) only once the
\* inner structures are blocks below it, and the build returns
\* Sequence[Basic, outer loop, Basic] whose loop holds the inner structure:
\* a While in the While, a DoWhile in the DoWhile, the self-loop and the
\* if-else in the DoWhile of structures_inside_loop.
C11_InnermostFirst ==
    cfg \in NestedLoopCFGs =>
        /\ (reduced.tag = "some" /\ reduced.by = "loop"
                /\ Range(LeafSeq(reduced.new)) = OuterLoopNodes(cfg))
               => HoldsKinds(reduced.new, InnerKinds(cfg))
        /\ Stopped =>
               /\ Built
               /\ BasicLoopBasic(get_tree(graph), OuterKind(cfg),
                                 Cardinality(DOMAIN cfg.edges) - 1)
               /\ HoldsKinds(get_tree(graph).content[2], InnerKinds(cfg))

\* C11 witness: the build of nested_dowhile (two do-while loops sharing no
\* node) has returned Sequence[0, DoWhile[Sequence[1, DoWhile[2, 3]], 4], 5].
C11_Witness ==
    /\ Built
    /\ cfg = Test_nested_dowhile
    /\ BasicLoopBasic(get_tree(graph), "DoWhile", 5)
    /\ get_tree(graph).content[2].content[1].content[2].type = "DoWhile"

(***************************************************************************)
(* C12.  Empty CFG                                                         *)
(***************************************************************************)

\* C12: the build of the empty CFG does not panic: denaturation leaves the
\* CFG empty, deep_copy gives the empty structure graph, the driver stops
\* at its first pass without a reduction, and get_tree answers None.
C12_EmptyCFG ==
    cfg = EmptyCFG =>
        /\ pc # "panic"
        /\ pc # "new" => nonat_cfg = EmptyCFG
        /\ pc \in {"driver", "done"} => graph = EmptyGraph /\ iter = 0
        /\ Stopped => Built /\ get_tree(graph) = NoBlock

\* C12 witness: CFS::new has returned for the empty CFG with an empty
\* structure graph.
C12_Witness ==
    /\ Built
    /\ cfg = Test_constructor_empty
    /\ cfg.root = None
    /\ GraphLen(graph) = 0
    /\ get_tree(graph) = NoBlock

(***************************************************************************)
(* C13.  get_cfg                                                           *)
(***************************************************************************)

\* C13: once CFS::new has returned, get_cfg answers a CFG equal to the one
\* passed to CFS::new, root and successor arrays, also when denaturation
\* removed edges from its own copy.
C13_GetCfg == Built => get_cfg(cfs_cfg) = cfg

\* C13 witness: denaturation removed an edge from its copy and get_cfg
\* still answers the CFG that was passed in.
C13_Witness ==
    /\ Built
    /\ nonat_cfg # cfg
    /\ nonat_cfg.root = cfg.root
    /\ get_cfg(cfs_cfg) = cfg

\* C14: a node that remove_edges pops, whose cond edge is present and does not
\* land on a to-be-removed node while its next edge does, ends with the
\* successors [cond, none].
C14_NextRemoved ==
    \A i \in DOMAIN calls :
        \A n \in calls[i].processed :
            LET cond == CfgCond(calls[i].before, n)
                next == CfgNext(calls[i].before, n)
            IN (cond # None /\ cond \notin calls[i].targets
                    /\ next \in calls[i].targets)
               => calls[i].after.edges[n] = <<cond, None>>

\* The calls recorded are those that produced nonat_cfg.
CallsChain ==
    /\ calls # <<>> => calls[1].before = cfg /\ Last(calls).after = nonat_cfg
    /\ \A i \in DOMAIN calls : i > 1 => calls[i].before = calls[i - 1].after
    /\ calls = <<>> /\ pc # "new" => nonat_cfg = cfg
\* The component of node n in the CFG passed to CFS::new.
SccOf(n) ==
    LET sccs == Scc(CfgChildren(cfg))
    IN {m \in DOMAIN sccs : sccs[m] = sccs[n]}

\* C15: when step 4 runs on a loop with more than one exit node, the exit edge
\* of the exit node with the most predecessors is kept, those of the other exit
\* nodes are removed, and exactly one edge leaves the component afterwards.
C15_StepFour ==
    \A i \in DOMAIN calls :
        (calls[i].step = 4 /\ Cardinality(Range(calls[i].exits)) > 1)
        => LET left == ExitEdges(calls[i].after, SccOf(calls[i].node))
           IN /\ Cardinality(left) = 1
              /\ \A e \in left : e[1] = Last(calls[i].exits)
\* The edges of a CFG as pairs <<source, destination>>.
EdgesOf(c) ==
    {<<n, c.edges[n][k]>> : n \in DOMAIN c.edges, k \in {1, 2}}
        \ ((DOMAIN c.edges) \X {None})

\* C16: step 4 leaves the CFG alone when the loop has one target and one exit
\* node, and no call of remove_edges removes an edge whose two ends are in the
\* same loop component.
C16_StepFourFrame ==
    \A i \in DOMAIN calls :
        /\ (calls[i].step = 4 /\ Cardinality(Range(calls[i].exits)) = 1)
           => calls[i].after = calls[i].before
        /\ \A e \in EdgesOf(calls[i].before) \ EdgesOf(calls[i].after) :
               ~(e[2] \in SccOf(e[1]) /\ Cardinality(SccOf(e[1])) > 1)
\* The edges that a call of remove_edges removed.
RemovedBy(call) == EdgesOf(call.before) \ EdgesOf(call.after)

\* C17: in step 3 the target that is kept is one of greatest depth among the
\* targets of the loop, no edge landing on it is removed, and every edge
\* removed leaves the component and lands on another target.
C17_DeepestTarget ==
    \A i \in DOMAIN calls :
        calls[i].step = 3
        => LET kept == calls[i].found \ calls[i].targets
               depth_map == calculate_depth(cfg)
               comp == SccOf(calls[i].node)
           IN /\ Cardinality(kept) = 1
              /\ \A k \in kept, t \in calls[i].found : depth_map[k] >= depth_map[t]
              /\ \A e \in RemovedBy(calls[i]) :
                     /\ e[2] \notin kept
                     /\ e[1] \in comp
                     /\ e[2] \notin comp
                     /\ e[2] \in calls[i].found

\* Step 3 ran on a loop whose targets differ in depth and removed an edge.
C17_Witness ==
    \E i \in DOMAIN calls :
        /\ calls[i].step = 3
        /\ RemovedBy(calls[i]) # {}
        /\ \E t, u \in calls[i].found :
               calculate_depth(cfg)[t] < calculate_depth(cfg)[u]
\* The target that step 3 kept, for every component on which it ran.
KeptTargets(made) ==
    {<<SccOf(made[i].node), made[i].found \ made[i].targets>> :
        i \in {j \in DOMAIN made : made[j].step = 3}}

\* C18: the target kept by step 3 is the same whatever the order in which the
\* set of targets and the node map of the CFG are iterated.
C18_Deterministic ==
    pc # "new" =>
        LET sccs == Scc(CfgChildren(cfg))
            preds == Predecessors(CfgChildren(cfg))
        IN \A nodes \in KeysOver(Range(sccs)),
              orders \in OrdersOver(cfg, Range(sccs)) :
                KeptTargets(NaturalLoopsCalls(nodes, 1, {}, sccs, preds,
                                calculate_depth(cfg), cfg, orders))
                    = KeptTargets(calls)
\* C19: in every call of remove_edges by denaturate_loop no node of the loop
\* component has both its next and its cond edge landing on to-be-removed
\* targets.
C19_NeverBoth ==
    \A i \in DOMAIN calls :
        \A n \in SccOf(calls[i].node) :
            ~(/\ CfgNext(calls[i].before, n) \in calls[i].targets
              /\ CfgCond(calls[i].before, n) \in calls[i].targets)
\* A driver iteration that found a reduction and remapped the graph.
Reduction == pc = "driver" /\ iter' = iter + 1

\* The keys that a reduction took out of the adjacency.
Left == DOMAIN graph.adjacency \ DOMAIN graph'.adjacency

C21_RootAndReach ==
    [][Reduction =>
          /\ graph'.root \in DOMAIN graph'.adjacency
          /\ graph'.root = IF graph.root \in Range(reduced'.new.content)
                           THEN reduced'.new ELSE graph.root
          /\ DOMAIN graph'.adjacency
                 \subseteq Preorder(graph'.adjacency, graph'.root)]_vars

\* A reduction absorbed the root while other blocks stayed in the graph.
C21_Witness ==
    /\ reduced.tag = "some"
    /\ graph.root = reduced.new
    /\ GraphLen(graph) > 1
    /\ DOMAIN graph.adjacency \subseteq Preorder(graph.adjacency, graph.root)
RECURSIVE Flat(_)
\* No Sequence inside b, b included, has a Sequence as a direct child.
Flat(b) ==
    /\ b.type = "Sequence" => \A i \in DOMAIN b.content : b.content[i].type # "Sequence"
    /\ \A i \in DOMAIN b.content : Flat(b.content[i])

\* The content that a block brings into a Sequence.
FlatContent(b) == IF b.type = "Sequence" THEN b.content ELSE <<b>>

\* A linear chain 0 -> 1 -> .. -> n-1 of at least two nodes.
IsChain(c) ==
    LET n == Cardinality(DOMAIN c.edges)
    IN /\ n >= 2
       /\ c.root = 0
       /\ \A i \in DOMAIN c.edges :
              c.edges[i] = IF i = n - 1 THEN <<None, None>> ELSE <<i + 1, None>>

\* C22: no Sequence of an intermediate graph or of the final tree has a
\* Sequence as a direct child; the Sequence built from a node and its
\* successor holds the content of the node (the node itself if it is not a
\* Sequence) followed by that of the successor; a chain of n Basic blocks
\* reduces to one Sequence of depth 1 with the n Basic blocks as children.
C22_FlatSequences ==
    /\ [](\A b \in BlocksOf(graph) \cup {reduced.new} : Flat(b))
    /\ []((Built /\ IsChain(cfg)) =>
             get_tree(graph)
                 = Nested("Sequence",
                          [i \in 1 .. Cardinality(DOMAIN cfg.edges) |-> Basic(i - 1)], 1))
    /\ [][(Reduction /\ reduced'.by = "sequence") =>
              /\ reduced'.new.type = "Sequence"
              /\ reduced'.new.content
                     = FlatContent(reduced'.node)
                           \o FlatContent(graph.adjacency[reduced'.node][1])]_vars

\* The chain of five blocks of tests::reduce_sequence became one Sequence of
\* five children, built by absorbing a Sequence four times.
C22_Witness ==
    /\ Built
    /\ cfg = Test_reduce_sequence
    /\ get_tree(graph).type = "Sequence"
    /\ Len(get_tree(graph).content) = 5
    /\ iter = 4
\* The answer of reduce_loop for a key of the graph being reduced.
LoopAnswer(node) ==
    reduce_loop(node, graph, Predecessors(graph.adjacency),
                is_loop(Scc(graph.adjacency)))

\* node is a key inside a loop with several predecessors and two successors,
\* both of them keys and neither of them the node itself.
WhileHead(node) ==
    /\ is_loop(Scc(graph.adjacency))[node]
    /\ Cardinality(Predecessors(graph.adjacency)[node]) > 1
    /\ Len(graph.adjacency[node]) = 2
    /\ \A k \in {1, 2} : HasNode(graph, graph.adjacency[node][k])
    /\ node \notin Range(graph.adjacency[node])

\* C23: for a node in a loop with several predecessors and two successors, of
\* which the one in slot k alone has the node as its unique successor,
\* reduce_loop answers While[node, that successor] with the other successor
\* as next, whatever the slot k and the edges of the other successor.
C23_WhileTail ==
    pc = "driver" =>
        \A node \in DOMAIN graph.adjacency :
            WhileHead(node) =>
                \A k \in {1, 2} :
                    LET tail == graph.adjacency[node][k]
                        other == graph.adjacency[node][3 - k]
                    IN (graph.adjacency[tail] = <<node>>
                            /\ graph.adjacency[other] # <<node>>)
                       => /\ LoopAnswer(node).tag = "some"
                          /\ LoopAnswer(node).new
                                 = Nested("While", <<node, tail>>,
                                          Max2(get_depth(node), get_depth(tail)) + 1)
                          /\ LoopAnswer(node).next = other
\* node is a key inside a loop with several predecessors and one successor,
\* the tail, which has two successors, both keys and neither of them node.
DoWhileHead(node) ==
    /\ is_loop(Scc(graph.adjacency))[node]
    /\ Cardinality(Predecessors(graph.adjacency)[node]) > 1
    /\ Len(graph.adjacency[node]) = 1
    /\ HasNode(graph, graph.adjacency[node][1])
    /\ LET tail_children == graph.adjacency[graph.adjacency[node][1]]
       IN /\ Len(tail_children) = 2
          /\ node \notin Range(tail_children)
          /\ \A k \in {1, 2} : HasNode(graph, tail_children[k])

\* C24: in the do-while shape whose tail has two successors, neither of them
\* node, reduce_loop matches exactly when one and only one of the two has node
\* as its unique successor; that one is the post_tail and the other the next.
C24_PostTail ==
    pc = "driver" =>
        \A node \in DOMAIN graph.adjacency :
            DoWhileHead(node) =>
                LET tail == graph.adjacency[node][1]
                    tail_children == graph.adjacency[tail]
                    back == {k \in {1, 2} : graph.adjacency[tail_children[k]] = <<node>>}
                IN IF Cardinality(back) = 1
                   THEN \A k \in back :
                            /\ LoopAnswer(node).tag = "some"
                            /\ LoopAnswer(node).new.type = "DoWhile"
                            /\ LoopAnswer(node).new.content
                                   = <<node, tail, tail_children[k]>>
                            /\ LoopAnswer(node).next = tail_children[3 - k]
                   ELSE LoopAnswer(node).tag = "none"
\* The answer of reduce_ifthen for a key of the graph g.
IfThenAnswer(node, g) ==
    reduce_ifthen(node, g, Predecessors(g.adjacency), is_loop(Scc(g.adjacency)))

\* g with the two successors of h exchanged.
SwapChildren(g, h) == [g EXCEPT !.adjacency[h] = Reverse(@)]

\* C25: when reduce_ifthen matches, the last content block (the then block)
\* has the head as its only predecessor and the returned next (cont) as its
\* only successor; the blocks before it are a chain of heads, eldest first,
\* each the only predecessor of the following head, the last one being the
\* node, each with exactly two successors one of which is cont; exchanging
\* the slots of a head does not change the answer.
C25_IfThenShape ==
    pc = "driver" =>
        \A node \in DOMAIN graph.adjacency :
            LET r == IfThenAnswer(node, graph)
                preds == Predecessors(graph.adjacency)
                n == Len(r.new.content)
                then == r.new.content[n]
                cont == r.next
            IN r.tag = "some" =>
                  /\ r.new.type = "IfThen"
                  /\ n >= 2
                  /\ r.new.content[n - 1] = node
                  /\ preds[then] = {node}
                  /\ graph.adjacency[then] = <<cont>>
                  /\ \A i \in 1 .. n - 1 :
                         /\ Len(graph.adjacency[r.new.content[i]]) = 2
                         /\ cont \in Range(graph.adjacency[r.new.content[i]])
                  /\ \A i \in 1 .. n - 2 :
                         preds[r.new.content[i + 1]] = {r.new.content[i]}
                  /\ \A i \in 1 .. n - 1 :
                         IfThenAnswer(node, SwapChildren(graph, r.new.content[i])) = r

\* reduce_ifthen matched in the run of tests::short_circuit_if_then_tricky
\* with a chain of three heads, the youngest keeping cont in its next slot.
C25_Witness ==
    /\ reduced.tag = "some"
    /\ reduced.by = "ifthen"
    /\ cfg = Test_short_circuit_if_then_tricky
    /\ reduced.new.content = <<Basic(0), Basic(1), Basic(2), Basic(3)>>
    /\ reduced.node = Basic(2)
    /\ reduced.next = Basic(4)
\* The answer of reduce_ifelse for a key of the graph being reduced.
IfElseAnswer(node) ==
    reduce_ifelse(node, graph, Predecessors(graph.adjacency),
                  is_loop(Scc(graph.adjacency)))

\* C26: when reduce_ifelse matches, the last two content blocks (then, else)
\* are the successors of the node, each has exactly one successor, the same
\* block j, which is the returned next; the blocks before them are the chain
\* of heads, eldest first, ending with the node, and every head above the
\* node is the only predecessor of the following head and has exactly two
\* successors one of which is the else block.
C26_IfElseShape ==
    pc = "driver" =>
        \A node \in DOMAIN graph.adjacency :
            LET r == IfElseAnswer(node)
                preds == Predecessors(graph.adjacency)
                n == Len(r.new.content)
                elseb == r.new.content[n]
                thenb == r.new.content[n - 1]
            IN r.tag = "some" =>
                  /\ r.new.type = "IfThenElse"
                  /\ n >= 3
                  /\ r.new.content[n - 2] = node
                  /\ Range(graph.adjacency[node]) = {thenb, elseb}
                  /\ graph.adjacency[thenb] = <<r.next>>
                  /\ graph.adjacency[elseb] = <<r.next>>
                  /\ \A i \in 1 .. n - 3 :
                         /\ preds[r.new.content[i + 1]] = {r.new.content[i]}
                         /\ Len(graph.adjacency[r.new.content[i]]) = 2
                         /\ elseb \in Range(graph.adjacency[r.new.content[i]])

\* reduce_ifelse matched in a run and the ascent added a head above the node.
C26_Witness ==
    /\ reduced.tag = "some"
    /\ reduced.by = "ifelse"
    /\ Len(reduced.new.content) >= 4
    /\ reduced.new.content[Len(reduced.new.content) - 2] = reduced.node
    /\ reduced.next.type = "Basic"
\* The Basic keys of the graph with exactly two successors one of which is
\* the block itself.
SelfLoopers(g) ==
    {b \in DOMAIN g.adjacency :
        b.type = "Basic" /\ Len(g.adjacency[b]) = 2 /\ b \in Range(g.adjacency[b])}

\* C27: a Basic block with exactly two successors one of which is itself is
\* absorbed by no reduction but the one of the self-loop reducer, which wraps
\* it alone in a SelfLooping block followed by the other successor.
C27_SelfLoopFirst ==
    [][Reduction =>
          \A b \in SelfLoopers(graph) :
              b \in Range(reduced'.new.content) =>
                  /\ reduced'.by = "self_loop"
                  /\ reduced'.new.type = "SelfLooping"
                  /\ reduced'.new.content = <<b>>
                  /\ reduced'.next \in Range(graph.adjacency[b]) \ {b}]_vars
\* C28: after every remap every block of a successor list is a key of the
\* adjacency, and the next that the reducer returned is not a content block
\* of the new block.
C28_Closed ==
    /\ BlocksOf(graph) \subseteq DOMAIN graph.adjacency
    /\ reduced.tag = "some" => reduced.next \notin Range(reduced.new.content)
\* The keys that the reduction about to be applied absorbs: the content
\* blocks of the new block and, for a Sequence, the two blocks it was built
\* from, which stand for their content.
Region ==
    {b \in DOMAIN graph.adjacency :
        \/ b \in Range(reduced'.new.content)
        \/ /\ reduced'.by = "sequence"
           /\ b \in {reduced'.node} \cup Range(graph.adjacency[reduced'.node])}

\* The block through which the region is entered: the first content block,
\* or the node of a sequence reduction.
RegionHead ==
    IF reduced'.by = "sequence" THEN reduced'.node ELSE reduced'.new.content[1]

\* C29: when a reducer matches, every absorbed block but the first has all
\* its predecessors among the absorbed blocks.
C29_SingleEntry ==
    [][Reduction =>
          \A b \in Region \ {RegionHead} :
              Predecessors(graph.adjacency)[b] \subseteq Region]_vars
\* C30: when a reducer matches, every edge from an absorbed block to a block
\* that is not absorbed lands on the next returned by the reducer, and there
\* is no such edge when no next is returned.
C30_SingleExit ==
    [][Reduction =>
          \A b \in Region :
              \A t \in Range(graph.adjacency[b]) \ Region :
                  reduced'.next # NoBlock /\ t = reduced'.next]_vars
\* An if-then with a chain of heads was reduced: the edges of the heads and
\* of the then block to cont became the one edge of the new block.
C30_Witness ==
    /\ reduced.tag = "some"
    /\ reduced.by = "ifthen"
    /\ Len(reduced.new.content) >= 3
    /\ reduced.next # NoBlock
    /\ reduced.next \notin Range(reduced.new.content)
    /\ HasNode(graph, reduced.new)
    /\ graph.adjacency[reduced.new] = <<reduced.next>>
    /\ HasNode(graph, reduced.next)
====
